---- MODULE Spec2Model ----
(***************************************************************************)
(* Model of the treasury ledger ingestion loop (listenNewBlocks.py): the   *)
(* supervisory restart loop, process_and_store_transactions with its       *)
(* batching over the confirmed block range, the log classifier, the record *)
(* builder, the unordered bulk upsert and the resume point derived from    *)
(* the ledger.                                                             *)
(***************************************************************************)
EXTENDS Integers, Sequences, FiniteSets, TLC

(* ---------------- program constants ---------------- *)
BATCH_SIZE == 100
CONFIRMATIONS == 1
RETRIES == 3
POLL_INTERVAL == 20
RETRY_DELAY == 10
CYCLE_DELAY == 60

(* ---------------- bounds of the model ---------------- *)
MaxHead == 250      \* the chain head stops growing here
HeadStep == 50      \* blocks the head gains between two observations
MaxFaults == 2      \* failed operations (RPC, store, startup) per behaviour
MaxKills == 1       \* times the process is killed from outside
MaxDays == 2        \* days that pass in a behaviour of the daily job
MaxJobFaults == 1   \* failed operations of the daily job per behaviour

(* ---------------- addresses, topics, payloads ---------------- *)
\* A raw address is its 20 bytes (id) and the letter case it is written in.
to_checksum_address(a) == [id |-> a.id, fmt |-> "checksum"]

TREASURY_ADDRESSES == <<to_checksum_address([id |-> "T", fmt |-> "lower"])>>
TREASURY_SET == {TREASURY_ADDRESSES[i] : i \in 1..Len(TREASURY_ADDRESSES)}

TRANSFER_TOPIC == "0xddf252ad"
NATIVE_RON_TRANSFER_TOPIC == "0x3d0ce9bf"
\* the literal 0x000...0 has no letters: one spelling in every letter case
ZERO_ADDRESS == [id |-> "ZERO", fmt |-> "checksum"]

\* "0x" + topic.hex()[-40:]: the low 20 bytes of a 32-byte topic, in the
\* lower case that hex() prints; the high 12 bytes (hi) are dropped.
TopicAddress(t) == [id |-> t.lo, fmt |-> "lower"]

\* int(data.hex(), 16): base-16 value of the payload's digits; the empty
\* payload prints as "0x", which int() rejects with ValueError.
RECURSIVE HexValue(_)
HexValue(ds) ==
    IF ds = <<>> THEN 0
    ELSE 16 * HexValue(SubSeq(ds, 1, Len(ds) - 1)) + ds[Len(ds)]

HexDecodes(ds) == Len(ds) > 0

\* str(n): the decimal numeral of n, with a leading "-" for n < 0.
DigitChar == <<"0", "1", "2", "3", "4", "5", "6", "7", "8", "9">>

RECURSIVE Numeral(_)
Numeral(n) ==
    IF n < 10 THEN <<DigitChar[n + 1]>>
    ELSE Append(Numeral(n \div 10), DigitChar[(n % 10) + 1])

str(n) == IF n < 0 THEN <<"-">> \o Numeral(0 - n) ELSE Numeral(n)

\* the value of a decimal numeral (int(), "$toDecimal")
DigitVal(c) == CHOOSE d \in 0..9 : DigitChar[d + 1] = c

RECURSIVE NatOf(_)
NatOf(s) ==
    IF s = <<>> THEN 0
    ELSE 10 * NatOf(SubSeq(s, 1, Len(s) - 1)) + DigitVal(s[Len(s)])

\* safe_selector: "0x" plus the first 8 hex digits of the input when it has
\* at least 8 of them (10 characters with the prefix), else the bare "0x".
\* An input is modelled by its hex digits after the prefix.
safe_selector(input_data) ==
    IF Len(input_data) >= 8 THEN SubSeq(input_data, 1, 8) ELSE <<>>

(* ---------------- with_retries ---------------- *)
\* outs[k] tells whether the k-th call of the wrapped operation would succeed.
AttemptOutcomes == [1..RETRIES -> BOOLEAN]

\* range(1, retries) in place of range(1, retries + 1): the last attempt is
\* never made
RECURSIVE RetryLoopShort(_, _, _)
RetryLoopShort(outs, attempt, sleeps) ==
    IF outs[attempt] THEN [ok |-> TRUE, calls |-> attempt, sleeps |-> sleeps]
    ELSE IF attempt = RETRIES - 1
         THEN [ok |-> FALSE, calls |-> attempt, sleeps |-> sleeps]
         ELSE RetryLoopShort(outs, attempt + 1, sleeps + 1)

RECURSIVE RetryLoop(_, _, _)
RetryLoop(outs, attempt, sleeps) ==
    IF outs[attempt] THEN [ok |-> TRUE, calls |-> attempt, sleeps |-> sleeps]
    ELSE IF attempt = RETRIES
         THEN [ok |-> FALSE, calls |-> attempt, sleeps |-> sleeps]
         ELSE RetryLoop(outs, attempt + 1, sleeps + 1)

with_retries(outs) == RetryLoop(outs, 1, 0)

(* ---------------- the chain (the RPC endpoint's answers) ---------------- *)
Topic(hi, lo) == [hi |-> hi, lo |-> lo]

MkLog(bn, idx, tx, emitter, t0, frm, to, data) ==
    [blockNumber |-> bn, logIndex |-> idx, transactionHash |-> tx,
     address |-> emitter, topics |-> <<t0, frm, to>>, data |-> data]

\* The logs of the chain, in chain order (block, then log index).
ChainLogs ==
    << MkLog(20, 0, "h1", [id |-> "K", fmt |-> "lower"], TRANSFER_TOPIC,
             Topic(0, "T"), Topic(0, "X"), <<1, 0>>),
       MkLog(20, 1, "h1", [id |-> "K", fmt |-> "lower"], TRANSFER_TOPIC,
             Topic(0, "X"), Topic(0, "Y"), <<7>>),
       MkLog(60, 0, "h2", [id |-> "K", fmt |-> "checksum"], TRANSFER_TOPIC,
             Topic(0, "X"), Topic(0, "T"), <<5>>),
       MkLog(130, 0, "h3", [id |-> "T", fmt |-> "lower"],
             NATIVE_RON_TRANSFER_TOPIC, Topic(0, "X"), Topic(0, "X"), <<2>>),
       MkLog(130, 1, "h3", [id |-> "K", fmt |-> "lower"], TRANSFER_TOPIC,
             Topic(0, "T"), Topic(0, "T"), <<4>>),
       MkLog(170, 0, "h4", [id |-> "T", fmt |-> "checksum"],
             NATIVE_RON_TRANSFER_TOPIC, Topic(0, "T"), Topic(0, "T"), <<3>>),
       MkLog(170, 1, "h4", [id |-> "X", fmt |-> "lower"],
             NATIVE_RON_TRANSFER_TOPIC, Topic(0, "T"), Topic(0, "T"), <<6>>),
       MkLog(240, 0, "h5", [id |-> "N", fmt |-> "lower"], TRANSFER_TOPIC,
             Topic(0, "X"), Topic(0, "T"), <<>>) >>

\* eth_getLogs over [fromBlock, toBlock] with the two watched signatures.
get_logs(fromBlock, toBlock) ==
    LET InRange(l) == /\ l.blockNumber >= fromBlock
                      /\ l.blockNumber <= toBlock
                      /\ l.topics[1] \in {TRANSFER_TOPIC, NATIVE_RON_TRANSFER_TOPIC}
    IN  SelectSeq(ChainLogs, InRange)

\* eth_getTransaction(hash)["input"], as the hex digits after "0x".
get_transaction(tx_hash) ==
    CASE tx_hash = "h1" -> <<10, 9, 0, 5, 9, 12, 11, 11, 0, 0>>
      [] tx_hash = "h2" -> <<>>
      [] tx_hash = "h3" -> <<1, 2>>
      [] OTHER -> <<2, 3, 11, 8, 7, 2, 13, 13>>

\* eth_getBlock(number)["timestamp"]
get_block(bn) == 1700000000 + 3 * bn

(* ---------------- classification (lines 122-137) ---------------- *)
NoItem == [type |-> "none"]

\* lines 129-131 without the exclusion of treasury-to-treasury transfers
AcceptErc20EitherSide(frm, to) == frm \in TREASURY_SET \/ to \in TREASURY_SET

\* lines 129-131
AcceptErc20(frm, to) ==
    (frm \in TREASURY_SET \/ to \in TREASURY_SET)
    /\ ~(frm \in TREASURY_SET /\ to \in TREASURY_SET)

Classify(log) ==
    LET log_topic == log.topics[1] IN
    IF log_topic = TRANSFER_TOPIC
    THEN LET frm == to_checksum_address(TopicAddress(log.topics[2]))
             to  == to_checksum_address(TopicAddress(log.topics[3]))
         IN  IF AcceptErc20(frm, to)
             THEN [type |-> "erc20_log", data |-> log]
             ELSE NoItem
    ELSE IF log_topic = NATIVE_RON_TRANSFER_TOPIC
    THEN LET log_emitter == to_checksum_address(log.address)
         IN  IF log_emitter \in TREASURY_SET
             THEN [type |-> "native_ron_log", data |-> log]
             ELSE NoItem
    ELSE NoItem

\* A dict is the sequence of its entries in insertion order.
DictSet(d, k, v) ==
    IF \E i \in 1..Len(d) : d[i].key = k
    THEN [i \in 1..Len(d) |-> IF d[i].key = k THEN [key |-> k, val |-> v] ELSE d[i]]
    ELSE Append(d, [key |-> k, val |-> v])

\* doc_id of line 123: "{transactionHash}-{logIndex}"
DocId(log) == <<log.transactionHash, log.logIndex>>

RECURSIVE ClassifyAll(_, _)
ClassifyAll(logs, docs) ==
    IF logs = <<>> THEN docs
    ELSE LET item == Classify(Head(logs))
         IN  ClassifyAll(Tail(logs),
                         IF item = NoItem THEN docs
                         ELSE DictSet(docs, DocId(Head(logs)), item))

(* ---------------- record construction (lines 157-196) ---------------- *)
\* the direction taken from the sender for both kinds of log
IsOutBySender(type, frm) == frm \in TREASURY_SET

\* lines 163 and 173
IsOut(type, frm) == IF type = "erc20_log" THEN frm \in TREASURY_SET ELSE FALSE

\* the sign put on the wrong direction
SignedAmountFlipped(amt_raw, is_out) == IF is_out THEN amt_raw ELSE 0 - amt_raw

\* line 192
SignedAmount(amt_raw, is_out) == IF is_out THEN 0 - amt_raw ELSE amt_raw

MakeDoc(item, tx_input, block_timestamp) ==
    LET log == item.data
        amt_raw == HexValue(log.data)
        erc20 == item.type = "erc20_log"
        frm == to_checksum_address(TopicAddress(log.topics[2]))
        to == IF erc20 THEN to_checksum_address(TopicAddress(log.topics[3]))
              ELSE to_checksum_address(log.address)
        is_out == IsOut(item.type, frm)
    IN  [tokenAddress |-> IF erc20 THEN to_checksum_address(log.address)
                          ELSE ZERO_ADDRESS,
         fromAddress |-> frm,
         toAddress |-> to,
         _id |-> <<log.blockNumber, log.logIndex>>,
         txHash |-> log.transactionHash,
         blockNumber |-> log.blockNumber,
         timestamp |-> block_timestamp,
         logIndex |-> log.logIndex,
         eventTopic |-> log.topics[1],
         amountRaw |-> str(amt_raw),
         amount |-> str(SignedAmount(amt_raw, is_out)),
         isOutgoing |-> is_out,
         method |-> safe_selector(tx_input)]

(* ---------------- the ledger (collection "txns") ---------------- *)
\* The collection is the sequence of its documents in insertion order.
\* an insert in place of the upsert
InsertAlways(coll, doc) == Append(coll, doc)

\* UpdateOne({"_id": id}, {"$set": doc}, upsert=True)
Upsert(coll, doc) ==
    IF \E i \in 1..Len(coll) : coll[i]._id = doc._id
    THEN [i \in 1..Len(coll) |-> IF coll[i]._id = doc._id THEN doc ELSE coll[i]]
    ELSE Append(coll, doc)

\* bulk_write(ops, ordered=False) in which exactly the operations at the
\* positions of applied took effect.
RECURSIVE ApplyOps(_, _, _, _)
ApplyOps(coll, ops, applied, i) ==
    IF i > Len(ops) THEN coll
    ELSE ApplyOps(IF i \in applied THEN Upsert(coll, ops[i]) ELSE coll,
                  ops, applied, i + 1)

\* find_one() without the sort: the document written last
LastBlockNumber(coll) == coll[Len(coll)].blockNumber

\* find_one(sort=[("blockNumber", -1)])
RECURSIVE MaxBlockNumber(_)
MaxBlockNumber(coll) ==
    IF Len(coll) = 1 THEN coll[1].blockNumber
    ELSE LET m == MaxBlockNumber(Tail(coll))
         IN  IF coll[1].blockNumber > m THEN coll[1].blockNumber ELSE m

\* lines 79-81
ResumePoint(coll, chain_head) ==
    IF coll = <<>> THEN chain_head ELSE MaxBlockNumber(coll) + 1

(* ---------------- state ---------------- *)
VARIABLES
    chainHead,        \* w3.eth.block_number as the node would answer now
    ledger,           \* the "txns" collection
    pc,               \* where the process is
    start_block,      \* the cursor
    head_block,       \* head read at the start of the cycle
    effective_end,    \* last confirmed block of the cycle
    batch_start,      \* first block of the batch in progress
    docs_to_upsert,   \* the batch's map of accepted logs
    pos,              \* position of the iteration over docs_to_upsert
    ops,              \* upserts built so far for the batch
    block_ts_cache,   \* block number -> timestamp, per run
    outcome,          \* how the last batch ended (the line the loop printed)
    faults,           \* failed operations so far
    kills,            \* kills so far
    initResume,       \* the cursor the first successful start computed, or -1
    reingested,       \* the last bulk write met an id the ledger already held
    fetchFailedAt,    \* first block of the cycle's earliest batch whose fetch failed, or -1
    writeFailedAt,    \* first block of the cycle's earliest batch whose write failed, or -1
    blk_lookup,       \* get_block in the last pass over a log: "none", "ok", "failed"
    c_pc, c_log, c_item, c_doc,  \* the classifier and record builder alone
    r_outs, r_res     \* with_retries alone: the attempts' outcomes, the result

VARIABLES
    dailyData,        \* the "dailyData" collection
    d_pc,             \* where the daily job is: "idle" between runs, "loop"
    d_today,          \* datetime.now(timezone.utc).date()
    d_current,        \* main's local current
    d_yesterday,      \* main's local yesterday_utc
    d_first,          \* the date at which the behaviour begins
    d_outcome,        \* the line the job printed last
    d_faults          \* failed operations of the job so far

loopLocals == <<chainHead, pc, start_block, head_block, effective_end,
                batch_start, docs_to_upsert, pos, ops, block_ts_cache, outcome,
                faults, kills, initResume, reingested, fetchFailedAt,
                writeFailedAt, blk_lookup>>
loopVars == <<ledger, loopLocals>>
pureVars == <<c_pc, c_log, c_item, c_doc, r_outs, r_res>>
dailyVars == <<dailyData, d_pc, d_today, d_current, d_yesterday, d_first,
               d_outcome, d_faults>>
vars == <<loopVars, pureVars, dailyVars>>

(* ---------------- buildDailyData.py: dates and keys ---------------- *)
\* A date is the number of its day counted from 1970-01-01, so that dates
\* compare and add as datetime.date does and a day's first second is
\* 86400 times its date.  days_from_civil is date(y, m, d); civil_from_days
\* gives back the year, the month and the day of the month.
\* days from 1 March of year 0 to 1 March of year y
DaysToMarch(y) == 365 * y + y \div 4 - y \div 100 + y \div 400

days_from_civil(y, m, d) ==
    IF m <= 2
    THEN DaysToMarch(y - 1) + (153 * (m + 9) + 2) \div 5 + d - 719469
    ELSE DaysToMarch(y) + (153 * (m - 3) + 2) \div 5 + d - 719469

civil_from_days(day) ==
    LET z   == day + 719468
        era == z \div 146097
        doe == z - era * 146097
        yoe == (doe - doe \div 1460 + doe \div 36524 - doe \div 146096) \div 365
        doy == doe - (365 * yoe + yoe \div 4 - yoe \div 100)
        mp  == (5 * doy + 2) \div 153
        d   == doy - (153 * mp + 2) \div 5 + 1
        m   == IF mp < 10 THEN mp + 3 ELSE mp - 9
        y   == yoe + era * 400
    IN  <<IF m <= 2 THEN y + 1 ELSE y, m, d>>

\* line 21
DEFAULT_START_DATE == days_from_civil(2025, 7, 27)

\* line 41: limit(5000)
FindLimit == 5000

\* strftime("%Y-%m-%d") (line 116): the key text, given by its three
\* zero-padded fields in the order in which the text holds them.
strftime(day) == civil_from_days(day)

DaysInMonth(y, m) ==
    IF m = 2
    THEN IF (y % 4 = 0 /\ y % 100 # 0) \/ y % 400 = 0 THEN 29 ELSE 28
    ELSE IF m \in {4, 6, 9, 11} THEN 30 ELSE 31

\* lines 34-38: the date a key spells, None (NoDate) when strptime raises
NoDate == -1
parse_yyyy_mm_dd(k) ==
    IF /\ Len(k) = 3
       /\ k[2] \in 1..12
       /\ k[1] \in 1..9999
       /\ k[3] >= 1
       /\ k[3] <= DaysInMonth(k[1], k[2])
    THEN days_from_civil(k[1], k[2], k[3])
    ELSE NoDate

\* lines 43-47 over the documents lo..hi of the cursor: the greatest date a
\* key spells, NoDate when there is none.  The maximum is taken by halves.
RECURSIVE MaxDateIn(_, _, _)
MaxDateIn(coll, lo, hi) ==
    IF lo > hi THEN NoDate
    ELSE IF lo = hi THEN parse_yyyy_mm_dd(coll[lo].key)
    ELSE LET mid == (lo + hi) \div 2
             a == MaxDateIn(coll, lo, mid)
             b == MaxDateIn(coll, mid + 1, hi)
         IN  IF b > a THEN b ELSE a

\* find({}, {"_id": 0}).limit(5000) returns the first 5000 documents of the
\* collection; a collection that is only appended to is read in insertion
\* order.
Limit(n) == IF n < FindLimit THEN n ELSE FindLimit

\* lines 40-50
find_resume_start_date(coll) ==
    LET max_date == MaxDateIn(coll, 1, Limit(Len(coll)))
    IN  IF max_date # NoDate THEN max_date + 1 ELSE DEFAULT_START_DATE

\* A timestamp read by the job is the pair <<day, s>> that stands for the
\* number 86400 * day + s of seconds since 1970, s in 0..86399: the numbers
\* themselves pass 2^31 in 2038 and the pairs order as the numbers do.
TsLeq(a, b) == a[1] < b[1] \/ (a[1] = b[1] /\ a[2] <= b[2])

\* lines 52-55: the first and the last second of the day
day_timestamps_utc(day) == <<(<<day, 0>>), (<<day, 86399>>)>>

(* ---------------- buildDailyData.py: the aggregate of a day ------------ *)
\* $toLower of a stored address
ToLower(a) == [id |-> a.id, fmt |-> "lower"]

\* The order of the model's address names as lower-case text: the zero
\* address is all zeros and comes first.
AddressRank(a) == IF a.id = "ZERO" THEN 0 ELSE 1

\* "$sort": {"typeName": 1, "token": 1} on two groups: a method is "0x" and
\* its lower-case hex digits, so the shorter text comes first and texts of
\* one length compare as their values.
GroupBefore(g, h) ==
    \/ Len(g[1]) < Len(h[1])
    \/ Len(g[1]) = Len(h[1]) /\ HexValue(g[1]) < HexValue(h[1])
    \/ g[1] = h[1] /\ AddressRank(g[2]) < AddressRank(h[2])

\* "$sum": {"$toDecimal": "$amountRaw"} over the matched records of a group
RECURSIVE GroupTotal(_, _, _, _, _)
GroupTotal(coll, start_ts, end_ts, g, i) ==
    IF i > Len(coll) THEN 0
    ELSE GroupTotal(coll, start_ts, end_ts, g, i + 1)
         + (IF /\ TsLeq(start_ts, coll[i].timestamp)
               /\ TsLeq(coll[i].timestamp, end_ts)
               /\ <<coll[i].method, ToLower(coll[i].tokenAddress)>> = g
            THEN NatOf(coll[i].amountRaw) ELSE 0)

\* lines 57-83
aggregate_for_day(coll, start_ts, end_ts) ==
    LET matched == {i \in 1..Len(coll) :
                      /\ TsLeq(start_ts, coll[i].timestamp)
                      /\ TsLeq(coll[i].timestamp, end_ts)}
        groups == {<<coll[i].method, ToLower(coll[i].tokenAddress)>> :
                     i \in matched}
        order == CHOOSE f \in [1..Cardinality(groups) -> groups] :
                   \A i, j \in 1..Cardinality(groups) :
                      i < j => GroupBefore(f[i], f[j])
    IN  [k \in 1..Cardinality(groups) |->
           [_sum |-> [value |-> str(GroupTotal(coll, start_ts, end_ts,
                                               order[k], 1))],
            typeName |-> order[k][1],
            token |-> order[k][2]]]

HasKey(coll, date_str) == \E i \in 1..Len(coll) : coll[i].key = date_str

\* lines 88-92: update_one({date_str: {"$exists": True}},
\* {"$setOnInsert": {date_str: results}}, upsert=True).  A document is its
\* date key and the key's value; _id plays no part.
upsert_day(coll, date_str, results) ==
    IF HasKey(coll, date_str) THEN coll
    ELSE Append(coll, [key |-> date_str, value |-> results])

NoDoc == [_id |-> <<>>]
NoResult == [ok |-> FALSE, calls |-> 0, sleeps |-> 0]
EmptyCache == [b \in {} |-> 0]

\* line 102 without the min: the last batch runs past effective_end
batch_endNoClamp == batch_start + BATCH_SIZE - 1

\* line 102
batch_end == IF batch_start + BATCH_SIZE - 1 < effective_end
             THEN batch_start + BATCH_SIZE - 1 ELSE effective_end

InitLoop ==
    /\ chainHead = 0
    /\ ledger = <<>>
    /\ pc = "startup"
    /\ start_block = 0
    /\ head_block = 0
    /\ effective_end = 0
    /\ batch_start = 0
    /\ docs_to_upsert = <<>>
    /\ pos = 0
    /\ ops = <<>>
    /\ block_ts_cache = EmptyCache
    /\ outcome = "none"
    /\ faults = 0
    /\ kills = 0
    /\ initResume = -1
    /\ reingested = FALSE
    /\ fetchFailedAt = -1
    /\ writeFailedAt = -1
    /\ blk_lookup = "none"

\* The daily job between two runs, on the date first, with the collection
\* coll in "dailyData".
InitDailyIdle(first, coll) ==
    /\ dailyData = coll
    /\ d_pc = "idle"
    /\ d_today = first
    /\ d_current = first
    /\ d_yesterday = first - 1
    /\ d_first = first
    /\ d_outcome = "none"
    /\ d_faults = 0

Init ==
    /\ InitLoop
    /\ c_pc = "off"
    /\ c_log = ChainLogs[1]
    /\ c_item = NoItem
    /\ c_doc = NoDoc
    /\ r_outs = [k \in 1..RETRIES |-> TRUE]
    /\ r_res = NoResult
    /\ InitDailyIdle(DEFAULT_START_DATE, <<>>)

CanFail == faults < MaxFaults

\* locals of a run that is not inside a batch
NoBatch ==
    /\ docs_to_upsert' = <<>>
    /\ pos' = 0
    /\ ops' = <<>>

(* ---------------- the environment ---------------- *)
\* the chain grows
HeadAdvance ==
    /\ chainHead + HeadStep <= MaxHead
    /\ chainHead' = chainHead + HeadStep
    /\ UNCHANGED <<ledger, pc, start_block, head_block, effective_end,
                   batch_start, docs_to_upsert, pos, ops, block_ts_cache,
                   outcome, faults, kills, initResume, reingested,
                   fetchFailedAt, writeFailedAt, blk_lookup>>

\* the process is killed at any point and started again: only the ledger
\* survives
Kill ==
    /\ kills < MaxKills
    /\ kills' = kills + 1
    /\ pc' = "startup"
    /\ start_block' = 0
    /\ head_block' = 0
    /\ effective_end' = 0
    /\ batch_start' = 0
    /\ NoBatch
    /\ block_ts_cache' = EmptyCache
    /\ outcome' = "none"
    /\ fetchFailedAt' = -1
    /\ writeFailedAt' = -1
    /\ blk_lookup' = "none"
    /\ UNCHANGED <<chainHead, ledger, faults, initResume, reingested>>

(* ---------------- process_and_store_transactions ---------------- *)
\* lines 58-84: connect to the node and the store, compute the cursor
Startup ==
    /\ pc = "startup"
    /\ \/ /\ pc' = "cycle"
          /\ start_block' = ResumePoint(ledger, chainHead)
          /\ block_ts_cache' = EmptyCache
          /\ initResume' = IF initResume = -1
                           THEN ResumePoint(ledger, chainHead) ELSE initResume
          /\ UNCHANGED faults
       \/ /\ CanFail
          /\ faults' = faults + 1
          /\ pc' = "restart_backoff"
          /\ UNCHANGED <<start_block, block_ts_cache, initResume>>
    /\ UNCHANGED <<chainHead, ledger, head_block, effective_end, batch_start,
                   docs_to_upsert, pos, ops, outcome, kills, reingested,
                   fetchFailedAt, writeFailedAt, blk_lookup>>

\* lines 88-102: read the head, idle or enter the first batch
CycleBegin ==
    /\ pc = "cycle"
    /\ \/ /\ head_block' = chainHead
          /\ effective_end' = IF chainHead - CONFIRMATIONS > 0
                              THEN chainHead - CONFIRMATIONS ELSE 0
          /\ IF start_block > effective_end'
             THEN pc' = "idle_wait" /\ UNCHANGED batch_start
             ELSE pc' = "fetch" /\ batch_start' = start_block
          /\ fetchFailedAt' = -1
          /\ writeFailedAt' = -1
          /\ UNCHANGED faults
       \/ /\ CanFail
          /\ faults' = faults + 1
          /\ pc' = "retry_backoff"
          /\ UNCHANGED <<head_block, effective_end, batch_start,
                         fetchFailedAt, writeFailedAt>>
    /\ UNCHANGED <<chainHead, ledger, start_block, docs_to_upsert, pos, ops,
                   block_ts_cache, outcome, kills, initResume, reingested,
                   blk_lookup>>

\* a step of BATCH_SIZE - 1: consecutive batches share a block
NextBatchOverlap ==
    /\ IF batch_start + BATCH_SIZE <= effective_end
       THEN pc' = "fetch" /\ batch_start' = batch_start + BATCH_SIZE - 1
       ELSE pc' = "cycle_sleep" /\ UNCHANGED batch_start
    /\ NoBatch
    /\ blk_lookup' = "none"

\* the for statement of line 99 moves on: next batch, or lines 212-213
NextBatch ==
    /\ IF batch_start + BATCH_SIZE <= effective_end
       THEN pc' = "fetch" /\ batch_start' = batch_start + BATCH_SIZE
       ELSE pc' = "cycle_sleep" /\ UNCHANGED batch_start
    /\ NoBatch
    /\ blk_lookup' = "none"

\* the cursor moved past a batch without accepted logs
FetchLogsAdvancing ==
    /\ pc = "fetch"
    /\ \E outs \in AttemptOutcomes :
          LET r == with_retries(outs)
              docs == ClassifyAll(get_logs(batch_start, batch_end), <<>>)
          IN  IF ~r.ok
              THEN /\ CanFail
                   /\ faults' = faults + 1
                   /\ outcome' = "fetch_failed"
                   /\ fetchFailedAt' = IF fetchFailedAt = -1 THEN batch_start
                                       ELSE fetchFailedAt
                   /\ UNCHANGED start_block
                   /\ NextBatch
              ELSE /\ UNCHANGED <<faults, fetchFailedAt>>
                   /\ IF docs = <<>>
                      THEN /\ outcome' = "no_events"
                           /\ start_block' = batch_end + 1
                           /\ NextBatch
                      ELSE /\ pc' = "process"
                           /\ docs_to_upsert' = docs
                           /\ pos' = 1
                           /\ ops' = <<>>
                           /\ outcome' = "events_found"
                           /\ blk_lookup' = "none"
                           /\ UNCHANGED <<batch_start, start_block>>
    /\ reingested' = FALSE
    /\ UNCHANGED <<chainHead, ledger, head_block, effective_end,
                   block_ts_cache, kills, initResume, writeFailedAt>>

\* lines 105-141: fetch the batch's logs and classify them
FetchLogs ==
    /\ pc = "fetch"
    /\ \E outs \in AttemptOutcomes :
          LET r == with_retries(outs)
              docs == ClassifyAll(get_logs(batch_start, batch_end), <<>>)
          IN  IF ~r.ok
              THEN /\ CanFail
                   /\ faults' = faults + 1
                   /\ outcome' = "fetch_failed"
                   /\ fetchFailedAt' = IF fetchFailedAt = -1 THEN batch_start
                                       ELSE fetchFailedAt
                   /\ NextBatch
              ELSE /\ UNCHANGED <<faults, fetchFailedAt>>
                   /\ IF docs = <<>>
                      THEN outcome' = "no_events" /\ NextBatch
                      ELSE /\ pc' = "process"
                           /\ docs_to_upsert' = docs
                           /\ pos' = 1
                           /\ ops' = <<>>
                           /\ outcome' = "events_found"
                           /\ blk_lookup' = "none"
                           /\ UNCHANGED batch_start
    /\ reingested' = FALSE
    /\ UNCHANGED <<chainHead, ledger, start_block, head_block, effective_end,
                   block_ts_cache, kills, initResume, writeFailedAt>>

\* the cache replaced by the new entry
CachePutSingle(cache, bn, ts) == [b \in {bn} |-> ts]

\* lines 152-154
CachePut(cache, bn, ts) ==
    [b \in DOMAIN cache \cup {bn} |-> IF b = bn THEN ts ELSE cache[b]]

\* lines 145-202: one pass of the loop over docs_to_upsert.values(), then the
\* iterator's next step
ProcessLog ==
    /\ pc = "process"
    /\ \E outsTx \in AttemptOutcomes, outsBlk \in AttemptOutcomes :
          LET item == docs_to_upsert[pos].val
              log == item.data
              bn == log.blockNumber
              txOk == with_retries(outsTx).ok
              cached == bn \in DOMAIN block_ts_cache
              blkOk == cached \/ with_retries(outsBlk).ok
              cache1 == IF txOk /\ ~cached /\ blkOk
                        THEN CachePut(block_ts_cache, bn, get_block(bn))
                        ELSE block_ts_cache
              rpcOk == txOk /\ blkOk
              lookup == IF ~txOk \/ cached THEN "none"
                        ELSE IF blkOk THEN "ok" ELSE "failed"
              done == rpcOk /\ HexDecodes(log.data)
              \* line 202: the except branch stores the item under a new key
              docs1 == IF done THEN docs_to_upsert
                       ELSE DictSet(docs_to_upsert, <<log.transactionHash>>, item)
              \* dict iteration raises RuntimeError once the size changed
              changed == Len(docs1) # Len(docs_to_upsert)
          IN  /\ (cached => outsBlk = [k \in 1..RETRIES |-> TRUE])
              /\ faults' = IF rpcOk THEN faults ELSE faults + 1
              /\ (~rpcOk => CanFail)
              /\ block_ts_cache' = cache1
              /\ blk_lookup' = lookup
              /\ IF changed
                 THEN /\ pc' = "retry_backoff"
                      /\ outcome' = "log_failed"
                      /\ NoBatch
                 ELSE /\ ops' = Append(ops, MakeDoc(item, get_transaction(log.transactionHash), cache1[bn]))
                      /\ docs_to_upsert' = docs1
                      /\ pos' = pos + 1
                      /\ pc' = IF pos + 1 > Len(docs1) THEN "write" ELSE "process"
                      /\ UNCHANGED outcome
    /\ UNCHANGED <<chainHead, ledger, start_block, head_block, effective_end,
                   batch_start, kills, initResume, reingested, fetchFailedAt,
                   writeFailedAt>>

\* lines 204-210: the unordered bulk write; the cursor moves on success
BulkWrite ==
    /\ pc = "write"
    /\ \E applied \in SUBSET (1..Len(ops)), ok \in BOOLEAN :
          /\ ok => applied = 1..Len(ops)
          /\ ~ok => CanFail
          /\ faults' = IF ok THEN faults ELSE faults + 1
          /\ ledger' = IF ops = <<>> THEN ledger ELSE ApplyOps(ledger, ops, applied, 1)
          /\ start_block' = IF ok /\ ops # <<>> THEN batch_end + 1 ELSE start_block
          /\ outcome' = IF ok THEN "write_ok" ELSE "write_failed"
          /\ reingested' = \E i \in applied, j \in 1..Len(ledger) :
                                ledger[j]._id = ops[i]._id
          /\ writeFailedAt' = IF ~ok /\ writeFailedAt = -1 THEN batch_start
                               ELSE writeFailedAt
    /\ NextBatch
    /\ UNCHANGED <<chainHead, head_block, effective_end, block_ts_cache,
                   kills, initResume, fetchFailedAt>>

\* time.sleep of lines 93, 213, 217 and 227
SleepOf(p) ==
    CASE p = "idle_wait" -> POLL_INTERVAL
      [] p = "cycle_sleep" -> CYCLE_DELAY
      [] p = "retry_backoff" -> RETRY_DELAY
      [] p = "restart_backoff" -> RETRY_DELAY
      [] OTHER -> 0

\* __main__ without its while loop: nothing follows the sleep of line 227
WakeNoRestart ==
    /\ pc \in {"idle_wait", "cycle_sleep", "retry_backoff"}
    /\ pc' = "cycle"
    /\ UNCHANGED <<chainHead, ledger, start_block, head_block, effective_end,
                   batch_start, docs_to_upsert, pos, ops, block_ts_cache,
                   outcome, faults, kills, initResume, reingested,
                   fetchFailedAt, writeFailedAt, blk_lookup>>

\* the cursor computed again from the ledger after the sleep of line 217
WakeRecompute ==
    /\ pc \in {"idle_wait", "cycle_sleep", "retry_backoff", "restart_backoff"}
    /\ pc' = IF pc = "restart_backoff" THEN "startup" ELSE "cycle"
    /\ start_block' = IF pc = "retry_backoff"
                      THEN ResumePoint(ledger, chainHead) ELSE start_block
    /\ UNCHANGED <<chainHead, ledger, head_block, effective_end,
                   batch_start, docs_to_upsert, pos, ops, block_ts_cache,
                   outcome, faults, kills, initResume, reingested,
                   fetchFailedAt, writeFailedAt, blk_lookup>>

\* the sleeps of lines 93, 213, 217 and 227 end
Wake ==
    /\ pc \in {"idle_wait", "cycle_sleep", "retry_backoff", "restart_backoff"}
    /\ pc' = IF pc = "restart_backoff" THEN "startup" ELSE "cycle"
    /\ UNCHANGED <<chainHead, ledger, start_block, head_block, effective_end,
                   batch_start, docs_to_upsert, pos, ops, block_ts_cache,
                   outcome, faults, kills, initResume, reingested,
                   fetchFailedAt, writeFailedAt, blk_lookup>>

(* ---------------- the classifier and the record builder alone ---------- *)
WatchedOrNot == {TRANSFER_TOPIC, NATIVE_RON_TRANSFER_TOPIC, "0x8c5be1e5"}
AddrIds == {"T", "X"}
Payloads == {<<>>, <<0>>, <<10>>, <<1, 0>>, <<15, 15>>}
TxInputs == {<<>>, <<1, 2>>, <<10, 9, 0, 5, 9, 12, 11, 11, 0, 0>>}

LogUniverse ==
    { MkLog(7, 3, "h9", [id |-> e, fmt |-> f], t0, Topic(hi, a), Topic(0, b), d) :
        e \in AddrIds, f \in {"lower", "checksum"}, t0 \in WatchedOrNot,
        hi \in {0, 1}, a \in AddrIds, b \in AddrIds, d \in Payloads }

InitPure ==
    /\ InitLoop
    /\ c_pc = "input"
    /\ c_log \in LogUniverse
    /\ c_item = NoItem
    /\ c_doc = NoDoc
    /\ r_outs \in AttemptOutcomes
    /\ r_res = NoResult
    /\ InitDailyIdle(DEFAULT_START_DATE, <<>>)

\* lines 122-137 on one log
ClassifyStep ==
    /\ c_pc = "input"
    /\ c_item' = Classify(c_log)
    /\ c_pc' = IF Classify(c_log) = NoItem THEN "discarded" ELSE "accepted"
    /\ UNCHANGED <<c_log, c_doc, r_outs, r_res>>

\* lines 157-196 on one accepted log
EnrichStep ==
    /\ c_pc = "accepted"
    /\ IF HexDecodes(c_log.data)
       THEN /\ \E inp \in TxInputs :
                  c_doc' = MakeDoc(c_item, inp, get_block(c_log.blockNumber))
            /\ c_pc' = "stored"
       ELSE c_pc' = "failed" /\ UNCHANGED c_doc
    /\ UNCHANGED <<c_log, c_item, r_outs, r_res>>

\* lines 45-54 on one sequence of attempt outcomes
RetryStep ==
    /\ r_res = NoResult
    /\ r_res' = with_retries(r_outs)
    /\ UNCHANGED <<c_pc, c_log, c_item, c_doc, r_outs>>

NextPure ==
    \/ (ClassifyStep /\ UNCHANGED <<loopVars, dailyVars>>)
    \/ (EnrichStep /\ UNCHANGED <<loopVars, dailyVars>>)
    \/ (RetryStep /\ UNCHANGED <<loopVars, dailyVars>>)

SpecPure == InitPure /\ [][NextPure]_vars

Next ==
    \/ (HeadAdvance /\ UNCHANGED <<pureVars, dailyVars>>)
    \/ (Kill /\ UNCHANGED <<pureVars, dailyVars>>)
    \/ (Startup /\ UNCHANGED <<pureVars, dailyVars>>)
    \/ (CycleBegin /\ UNCHANGED <<pureVars, dailyVars>>)
    \/ (FetchLogs /\ UNCHANGED <<pureVars, dailyVars>>)
    \/ (ProcessLog /\ UNCHANGED <<pureVars, dailyVars>>)
    \/ (BulkWrite /\ UNCHANGED <<pureVars, dailyVars>>)
    \/ (Wake /\ UNCHANGED <<pureVars, dailyVars>>)

Spec == Init /\ [][Next]_vars

\* the loop's steps happen when they can; the chain keeps growing; failures
\* and kills are bounded by MaxFaults and MaxKills, hence transient
FairSpec ==
    /\ Spec
    /\ WF_vars(HeadAdvance /\ UNCHANGED <<pureVars, dailyVars>>)
    /\ WF_vars(Startup /\ UNCHANGED <<pureVars, dailyVars>>)
    /\ WF_vars(CycleBegin /\ UNCHANGED <<pureVars, dailyVars>>)
    /\ WF_vars(FetchLogs /\ UNCHANGED <<pureVars, dailyVars>>)
    /\ WF_vars(ProcessLog /\ UNCHANGED <<pureVars, dailyVars>>)
    /\ WF_vars(BulkWrite /\ UNCHANGED <<pureVars, dailyVars>>)
    /\ WF_vars(Wake /\ UNCHANGED <<pureVars, dailyVars>>)

(* ---------------- buildDailyData.py: the daily job ---------------- *)
\* The ledger of the job's specification: the accepted logs of ChainLogs, in
\* chain order, in blocks dated in the days the job handles.  Entry k gives
\* the log's position in ChainLogs, the day of its block counted from the
\* first date of the behaviour, and the second of that day: the last second
\* of the day before, the first and the last second of the first day, noon
\* of the day after.
DailyFeed == << <<1, -1, 86399>>, <<3, 0, 0>>, <<4, 0, 86399>>, <<6, 1, 43200>> >>

FeedDate(first, k) == first + DailyFeed[k][2]

\* the record the ingestion loop stores for entry k (lines 157-196)
FeedDoc(first, k) ==
    LET log == ChainLogs[DailyFeed[k][1]]
    IN  MakeDoc(Classify(log), get_transaction(log.transactionHash),
                <<FeedDate(first, k), DailyFeed[k][3]>>)

\* "dailyData" after the job ran on each of n days in a row from
\* DEFAULT_START_DATE on, no ledger record being dated in those days.
StoredDays(n) ==
    [i \in 1..n |-> [key |-> strftime(DEFAULT_START_DATE + i - 1),
                     value |-> <<>>]]

\* how many days the job has been run on before the behaviour begins
DaysRunBefore == {0, FindLimit + 1}

InitDaily ==
    /\ InitLoop
    /\ c_pc = "off"
    /\ c_log = ChainLogs[1]
    /\ c_item = NoItem
    /\ c_doc = NoDoc
    /\ r_outs = [k \in 1..RETRIES |-> TRUE]
    /\ r_res = NoResult
    /\ \E n \in DaysRunBefore :
          InitDailyIdle(DEFAULT_START_DATE + n, StoredDays(n))

JobCanFail == d_faults < MaxJobFaults

\* midnight UTC passes
DayPasses ==
    /\ d_today < d_first + MaxDays
    /\ d_today' = d_today + 1
    /\ UNCHANGED <<ledger, dailyData, d_pc, d_current, d_yesterday, d_first,
                   d_outcome, d_faults>>

\* The ingestion loop stores the next record (listenNewBlocks.py line 206);
\* the block of the record is not later than now, and may be days old.
IngestRecord ==
    /\ Len(ledger) < Len(DailyFeed)
    /\ FeedDate(d_first, Len(ledger) + 1) <= d_today
    /\ ledger' = Upsert(ledger, FeedDoc(d_first, Len(ledger) + 1))
    /\ UNCHANGED dailyVars

\* lines 100-113: run.py starts the script; drop_date_index_if_exists changes
\* no document.  An exception of the scan ends the process.
JobStart ==
    /\ d_pc = "idle"
    /\ \/ /\ JobCanFail
          /\ d_faults' = d_faults + 1
          /\ d_outcome' = "crashed"
          /\ UNCHANGED <<d_pc, d_current, d_yesterday>>
       \/ LET start_date == find_resume_start_date(dailyData)
              yesterday_utc == d_today - 1
          IN  /\ d_current' = start_date
              /\ d_yesterday' = yesterday_utc
              /\ IF start_date > yesterday_utc
                 THEN d_outcome' = "nothing_to_do" /\ d_pc' = "idle"
                 ELSE d_outcome' = "run_started" /\ d_pc' = "loop"
              /\ UNCHANGED d_faults
    /\ UNCHANGED <<ledger, dailyData, d_today, d_first>>

\* lines 115-135, one pass of the while loop.  An exception of the aggregate
\* ends the process; an exception of update_one is caught at line 97, and
\* the single-document update it reports on has either happened or not.
JobDay ==
    /\ d_pc = "loop"
    /\ LET date_str == strftime(d_current)
           ts == day_timestamps_utc(d_current)
           results == aggregate_for_day(ledger, ts[1], ts[2])
           written == upsert_day(dailyData, date_str, results)
           Advance == /\ d_current' = d_current + 1
                      /\ d_pc' = IF d_current + 1 <= d_yesterday
                                 THEN "loop" ELSE "idle"
       IN  \/ /\ JobCanFail
              /\ d_faults' = d_faults + 1
              /\ d_outcome' = "crashed"
              /\ d_pc' = "idle"
              /\ UNCHANGED <<dailyData, d_current>>
           \/ /\ JobCanFail
              /\ d_faults' = d_faults + 1
              /\ d_outcome' = "upsert_error"
              /\ dailyData' \in {dailyData, written}
              /\ Advance
           \/ /\ dailyData' = written
              /\ d_outcome' = IF HasKey(dailyData, date_str)
                              THEN "skipped" ELSE "inserted"
              /\ Advance
              /\ UNCHANGED d_faults
    /\ UNCHANGED <<ledger, d_today, d_yesterday, d_first>>

NextDaily ==
    \/ (DayPasses /\ UNCHANGED <<loopLocals, pureVars>>)
    \/ (IngestRecord /\ UNCHANGED <<loopLocals, pureVars>>)
    \/ (JobStart /\ UNCHANGED <<loopLocals, pureVars>>)
    \/ (JobDay /\ UNCHANGED <<loopLocals, pureVars>>)

SpecDaily == InitDaily /\ [][NextDaily]_vars

(* ======================= properties ======================= *)
IsTreasury(id) == \E a \in TREASURY_SET : a.id = id

Qualifying(l) == Classify(l) # NoItem

RecordsOf(l, coll) ==
    {i \in 1..Len(coll) : coll[i]._id = <<l.blockNumber, l.logIndex>>}

Stored(l) == RecordsOf(l, ledger) # {}

IntOf(s) == IF Head(s) = "-" THEN 0 - NatOf(Tail(s)) ELSE NatOf(s)

Running == pc \notin {"startup", "restart_backoff"}

\* C1: every qualifying log of a block in [initial resume point, cursor) has
\* its record in the ledger, for the cursor of the running process and for
\* the resume point a restart would compute from the ledger.
C1_NothingBehindCursor ==
    initResume # -1 =>
      \A k \in 1..Len(ChainLogs) :
        LET l == ChainLogs[k] IN
        (Qualifying(l) /\ l.blockNumber >= initResume) =>
           /\ (Running /\ l.blockNumber < start_block) => Stored(l)
           /\ (ledger # <<>> /\ l.blockNumber < ResumePoint(ledger, chainHead))
                 => Stored(l)

\* C2: no step removes or changes a ledger record, no two records share an
\* id, and a bulk write whose ids are all in the ledger leaves it unchanged.
C2_IdempotentLedger ==
    [][ /\ \A i \in 1..Len(ledger) : \E j \in 1..Len(ledger') : ledger'[j] = ledger[i]
        /\ \A i, j \in 1..Len(ledger') : ledger'[i]._id = ledger'[j]._id => i = j
        /\ ( /\ pc = "write"
             /\ outcome' \in {"write_ok", "write_failed"}
             /\ \A i \in 1..Len(ops) : \E j \in 1..Len(ledger) : ledger[j]._id = ops[i]._id )
           => ledger' = ledger ]_vars

\* a successful bulk write has written again records the ledger already held
C2_Witness == reingested /\ outcome = "write_ok" /\ Len(ledger) >= 2

\* C3: a failed bulk write leaves the resume point computed from the ledger
\* as it was before the batch; a successful one makes it batch_end + 1.
C3_ResumePointFollowsWrite ==
    [][ /\ (pc = "write" /\ outcome' = "write_failed")
            => ResumePoint(ledger', chainHead) = ResumePoint(ledger, chainHead)
        /\ (pc = "write" /\ outcome' = "write_ok")
            => ResumePoint(ledger', chainHead) = batch_end + 1 ]_vars

\* C4: the cursor a start computes is one more than the greatest stored
\* block number, in whatever order the records were written, and the chain
\* head when the ledger is empty.
C4_CursorAtStart ==
    [][ (pc = "startup" /\ pc' = "cycle") =>
           IF ledger = <<>> THEN start_block' = chainHead
           ELSE /\ \A i \in 1..Len(ledger) : ledger[i].blockNumber < start_block'
                /\ \E i \in 1..Len(ledger) : ledger[i].blockNumber + 1 = start_block' ]_vars

\* a restart has computed the cursor from a ledger written out of block order
C4_Witness ==
    /\ pc = "cycle" /\ outcome = "none" /\ kills > 0
    /\ Len(ledger) >= 2
    /\ ledger[1].blockNumber > ledger[Len(ledger)].blockNumber
    /\ start_block = ledger[1].blockNumber + 1

\* C5: with transient failures and a growing chain, every qualifying log of
\* a confirmed block at or after the initial resume point is eventually and
\* for good in the ledger, as exactly one record.
C5_EventuallyStored ==
    <>[]( /\ initResume # -1
          /\ \A k \in 1..Len(ChainLogs) :
               LET l == ChainLogs[k] IN
               ( /\ Qualifying(l)
                 /\ l.blockNumber >= initResume
                 /\ l.blockNumber <= MaxHead - CONFIRMATIONS )
               => Cardinality(RecordsOf(l, ledger)) = 1 )

\* C6: amountRaw is never negative; an ERC-20 record whose sender is a
\* treasury address is outgoing with amount = -amountRaw, one whose recipient
\* is and whose sender is not is incoming with amount = amountRaw.
C6_Direction ==
    c_pc = "stored" =>
      /\ Head(c_doc.amountRaw) # "-"
      /\ IntOf(c_doc.amountRaw) >= 0
      /\ (c_log.topics[1] = TRANSFER_TOPIC /\ IsTreasury(c_log.topics[2].lo))
           => /\ c_doc.isOutgoing = TRUE
              /\ IntOf(c_doc.amount) = 0 - IntOf(c_doc.amountRaw)
      /\ ( /\ c_log.topics[1] = TRANSFER_TOPIC
           /\ IsTreasury(c_log.topics[3].lo)
           /\ ~IsTreasury(c_log.topics[2].lo) )
           => /\ c_doc.isOutgoing = FALSE
              /\ c_doc.amount = c_doc.amountRaw

\* the record of an outgoing ERC-20 transfer of a non-zero amount
C6_Witness ==
    /\ c_pc = "stored"
    /\ c_log.topics[1] = TRANSFER_TOPIC
    /\ IsTreasury(c_log.topics[2].lo)
    /\ IntOf(c_doc.amount) < 0

\* C7: an ERC-20 transfer log is accepted exactly when one and only one of
\* its from/to addresses is a treasury address; a log with another first
\* topic than the two watched ones is discarded.
C7_Acceptance ==
    c_pc # "input" =>
      /\ c_log.topics[1] = TRANSFER_TOPIC
           => ( (c_item # NoItem)
                <=> (IsTreasury(c_log.topics[2].lo) # IsTreasury(c_log.topics[3].lo)) )
      /\ c_log.topics[1] \notin {TRANSFER_TOPIC, NATIVE_RON_TRANSFER_TOPIC}
           => c_item = NoItem

\* a transfer between two treasury addresses has been discarded
C7_Witness ==
    /\ c_pc = "discarded"
    /\ c_log.topics[1] = TRANSFER_TOPIC
    /\ IsTreasury(c_log.topics[2].lo)
    /\ IsTreasury(c_log.topics[3].lo)

\* C8: every ledger record has exactly one of fromAddress and toAddress in
\* the treasury set.
C8_OneSideTreasury ==
    \A i \in 1..Len(ledger) :
        IsTreasury(ledger[i].fromAddress.id) # IsTreasury(ledger[i].toAddress.id)

\* C9: a native-asset log is accepted exactly when its emitter is a treasury
\* address; its record has the zero token address, the emitter as recipient,
\* isOutgoing false and amount = amountRaw, whoever the sender is.
C9_NativeIncoming ==
    (c_pc # "input" /\ c_log.topics[1] = NATIVE_RON_TRANSFER_TOPIC) =>
      /\ (c_item # NoItem) <=> IsTreasury(c_log.address.id)
      /\ c_pc = "stored"
           => /\ c_doc.tokenAddress = ZERO_ADDRESS
              /\ c_doc.toAddress = to_checksum_address(c_log.address)
              /\ c_doc.isOutgoing = FALSE
              /\ c_doc.amount = c_doc.amountRaw
              /\ IntOf(c_doc.amount) >= 0

\* the record of a native-asset log whose sender is a treasury address
C9_Witness ==
    /\ c_pc = "stored"
    /\ c_log.topics[1] = NATIVE_RON_TRANSFER_TOPIC
    /\ IsTreasury(c_log.topics[2].lo)
    /\ IntOf(c_doc.amountRaw) > 0

\* C10: when the processing of a log fails, the loop stays in the batch (the
\* next log or the bulk write follows) and the log is back in the map.
C10_FailureConfinedToLog ==
    [][ (pc = "process" /\ outcome = "events_found" /\ outcome' = "log_failed") =>
           /\ pc' \in {"process", "write"}
           /\ \E i \in 1..Len(docs_to_upsert') :
                 docs_to_upsert'[i].val = docs_to_upsert[pos].val ]_vars

LoopStep ==
    Startup \/ CycleBegin \/ FetchLogs \/ ProcessLog \/ BulkWrite \/ Wake

\* C11: the process never stops: some step of the loop is possible in every
\* state, a failed start waits RETRY_DELAY and leads to a new start, an
\* exception inside a cycle waits RETRY_DELAY and leads to a new cycle, and a
\* failed log fetch or bulk write leads to a new cycle.
C11_NeverStops ==
    /\ [](ENABLED (LoopStep /\ UNCHANGED <<pureVars, dailyVars>>))
    /\ []((pc \in {"retry_backoff", "restart_backoff"}) => SleepOf(pc) = RETRY_DELAY)
    /\ ((pc = "restart_backoff") ~> (pc = "startup"))
    /\ ((pc = "retry_backoff") ~> (pc \in {"cycle", "startup"}))
    /\ ((pc \notin {"cycle", "startup"} /\ outcome \in {"fetch_failed", "write_failed"})
          ~> (pc \in {"cycle", "startup"}))

\* a start has failed and the process sleeps before the next one
C11_Witness == pc = "restart_backoff" /\ faults > 0

\* C12: with_retries makes at most 3 calls, stops at the first success,
\* sleeps once between two consecutive calls and not after the last, and
\* fails exactly when all 3 calls failed.
C12_RetryPolicy ==
    r_res # NoResult =>
      /\ r_res.calls \in 1..3
      /\ \A k \in 1..(r_res.calls - 1) : ~r_outs[k]
      /\ r_res.ok => r_outs[r_res.calls]
      /\ r_res.sleeps = r_res.calls - 1
      /\ (~r_res.ok) <=> (\A k \in 1..3 : ~r_outs[k])

\* two calls failed and the third one succeeded
C12_Witness == r_res # NoResult /\ r_res.ok /\ r_res.calls = 3 /\ r_res.sleeps = 2

\* C13: a failed log fetch writes nothing, and until the next cycle has
\* started the cursor is not past the first block of a batch whose fetch
\* failed, so that the next cycle starts at or before that batch.
C13_FetchFailureHoldsCursor ==
    [][ /\ (pc = "fetch" /\ outcome' = "fetch_failed" /\ chainHead' = chainHead)
            => ledger' = ledger
        /\ (fetchFailedAt' # -1 /\ pc' # "startup")
            => start_block' <= fetchFailedAt'
        /\ (pc = "cycle" /\ pc' = "fetch" /\ fetchFailedAt # -1)
            => batch_start' <= fetchFailedAt ]_vars

\* C14: the cursor changes only at a successful bulk write, to batch_end + 1,
\* and until the next cycle has started it is not past the first block of a
\* batch whose bulk write failed, so that the next cycle starts at or before
\* that batch.
C14_WriteFailureHoldsCursor ==
    [][ /\ (start_block' # start_block /\ pc # "startup" /\ pc' # "startup")
            => (pc = "write" /\ outcome' = "write_ok" /\ start_block' = batch_end + 1)
        /\ (writeFailedAt' # -1 /\ pc' # "startup")
            => start_block' <= writeFailedAt'
        /\ (pc = "cycle" /\ pc' = "fetch" /\ writeFailedAt # -1)
            => batch_start' <= writeFailedAt ]_vars

InBatch == pc \in {"fetch", "process", "write"}

BatchOutcomes == {"fetch_failed", "no_events", "write_ok", "write_failed"}

\* C15: the first batch of a cycle starts at the cursor, every next batch
\* starts right after a full batch of BATCH_SIZE blocks whose outcome is
\* known, every batch holds between 1 and BATCH_SIZE blocks, and the batch
\* after which the cycle ends stops at effective_end.
C15_BatchPartition ==
    [][ /\ (pc = "cycle" /\ pc' = "fetch")
            => (batch_start' = start_block /\ batch_start' <= effective_end')
        /\ (InBatch /\ pc' = "fetch" /\ chainHead' = chainHead)
            => /\ batch_start' = batch_end + 1
               /\ batch_end - batch_start + 1 = BATCH_SIZE
               /\ effective_end' = effective_end
               /\ outcome' \in BatchOutcomes
        /\ (InBatch /\ pc' = "cycle_sleep")
            => (batch_end = effective_end /\ outcome' \in BatchOutcomes)
        /\ InBatch'
            => /\ batch_start' <= batch_end'
               /\ batch_end' - batch_start' + 1 <= BATCH_SIZE
               /\ batch_end' <= effective_end' ]_vars

\* the second batch of a cycle is about to be fetched
C15_Witness ==
    pc = "fetch" /\ batch_start = start_block + BATCH_SIZE /\ outcome \in BatchOutcomes

ConfirmedEnd(head) == IF head - CONFIRMATIONS > 0 THEN head - CONFIRMATIONS ELSE 0

IdleRule ==
    /\ (pc = "cycle" /\ pc' \notin {"cycle", "startup", "retry_backoff"}
          /\ start_block > effective_end')
         => (pc' = "idle_wait" /\ ledger' = ledger /\ start_block' = start_block)
    /\ (pc = "idle_wait" /\ pc' \notin {"idle_wait", "startup"})
         => /\ pc' = "cycle"
            /\ SleepOf(pc) = POLL_INTERVAL
            /\ ledger' = ledger
            /\ start_block' = start_block

\* C16 as stated: no batch reaches past head_block - CONFIRMATIONS, no stored
\* record is of a block past chainHead - CONFIRMATIONS, and a cycle whose
\* cursor is past effective_end only waits POLL_INTERVAL.
C16_ConfirmedOnly ==
    [][ /\ InBatch' => batch_end' <= head_block' - CONFIRMATIONS
        /\ \A i \in 1..Len(ledger') :
              ledger'[i].blockNumber <= chainHead' - CONFIRMATIONS
        /\ IdleRule ]_vars

\* C16, amended: the same with max(0, head - CONFIRMATIONS) as the limit.
C16_ConfirmedOnlyClamped ==
    [][ /\ InBatch' => batch_end' <= ConfirmedEnd(head_block')
        /\ \A i \in 1..Len(ledger') :
              ledger'[i].blockNumber <= ConfirmedEnd(chainHead')
        /\ IdleRule ]_vars

\* the loop idles behind records it has written
C16_Witness == pc = "idle_wait" /\ start_block > effective_end /\ Len(ledger) > 0

\* C17 as stated: the cycle that follows the sleep of line 217 starts from
\* the cursor computed from the ledger, max stored blockNumber + 1.
C17_RecomputedAfterError ==
    [][ (pc = "retry_backoff" /\ pc' = "cycle" /\ ledger # <<>>)
           => (SleepOf(pc) = RETRY_DELAY
               /\ start_block' = MaxBlockNumber(ledger) + 1) ]_vars

\* C17, amended: an exception of a cycle changes neither cursor nor ledger,
\* the sleep of RETRY_DELAY is followed by a cycle with the same cursor, and
\* the cursor changes only at a start and at a bulk write.
C17_CursorKeptAfterError ==
    [][ /\ (pc' = "retry_backoff" /\ pc # "retry_backoff")
            => (start_block' = start_block /\ ledger' = ledger)
        /\ (pc = "retry_backoff" /\ pc' # "startup")
            => /\ pc' \in {"retry_backoff", "cycle"}
               /\ SleepOf(pc) = RETRY_DELAY
               /\ start_block' = start_block
        /\ (start_block' # start_block /\ pc' # "startup")
            => pc \in {"startup", "write"} ]_vars

\* the loop sleeps after an exception with a cursor that differs from the one
\* the ledger gives
C17_Witness ==
    /\ pc = "retry_backoff"
    /\ ledger # <<>>
    /\ start_block # ResumePoint(ledger, chainHead)

\* C18: get_block is called only for a block that is not cached, a failed
\* call adds nothing, a record's timestamp is the cache's value for its
\* block, entries are never changed or removed within a run, and the cache
\* is empty when a run starts.
C18_TimestampCache ==
    [][ /\ (pc = "process" /\ chainHead' = chainHead /\ pc' # "startup")
            => LET bn == docs_to_upsert[pos].val.data.blockNumber IN
               /\ blk_lookup' # "none" => bn \notin DOMAIN block_ts_cache
               /\ blk_lookup' = "failed" => block_ts_cache' = block_ts_cache
               /\ Len(ops') = Len(ops) + 1
                    => /\ bn \in DOMAIN block_ts_cache'
                       /\ ops'[Len(ops')].timestamp = block_ts_cache'[bn]
                       /\ (blk_lookup' = "none") <=> (bn \in DOMAIN block_ts_cache)
        /\ pc' # "startup"
            => \A b \in DOMAIN block_ts_cache :
                  b \in DOMAIN block_ts_cache' /\ block_ts_cache'[b] = block_ts_cache[b]
        /\ (pc' = "startup" \/ pc = "startup") => block_ts_cache' = EmptyCache ]_vars

\* a record has been built from a cached timestamp while another block is
\* cached too
C18_Witness ==
    /\ pc \in {"process", "write"}
    /\ ops # <<>>
    /\ blk_lookup = "none"
    /\ Cardinality(DOMAIN block_ts_cache) >= 2

\* C19: a batch without accepted logs changes neither ledger nor cursor; the
\* cursor changes within a run only at a bulk write that stored all of the
\* batch's records, at least one; a cycle starts at the cursor.
C19_EmptyBatchHoldsCursor ==
    [][ /\ (pc = "fetch" /\ outcome' = "no_events" /\ chainHead' = chainHead)
            => (ledger' = ledger /\ start_block' = start_block)
        /\ (start_block' # start_block /\ pc # "startup" /\ pc' # "startup")
            => /\ pc = "write"
               /\ ops # <<>>
               /\ \A i \in 1..Len(ops) :
                     \E j \in 1..Len(ledger') : ledger'[j] = ops[i]
        /\ (pc = "cycle" /\ pc' = "fetch") => batch_start' = start_block ]_vars

\* a batch without accepted logs is over and the cursor is still at or
\* before its first block
C19_Witness ==
    /\ outcome = "no_events"
    /\ pc = "cycle_sleep"
    /\ start_block <= batch_start

\* C20: within a run the cursor never decreases, and once a cycle has
\* entered its batches it is at most effective_end + 1 and at most
\* head_block - CONFIRMATIONS + 1.
C20_CursorMonotone ==
    [][ /\ (pc # "startup" /\ pc' # "startup") => start_block' >= start_block
        /\ pc' \in {"fetch", "process", "write", "cycle_sleep"}
            => /\ start_block' <= effective_end' + 1
               /\ start_block' <= head_block' - CONFIRMATIONS + 1 ]_vars

\* the last batch of a cycle has moved the cursor to effective_end + 1
C20_Witness ==
    pc = "cycle_sleep" /\ outcome = "write_ok" /\ start_block = effective_end + 1

(* ---- C21 ---- *)
\* the greatest date stored in the collection, NoDate when there is none
GreatestStored(coll) == MaxDateIn(coll, 1, Len(coll))

\* a step of the job that starts a run, and a pass of its loop
RunStartStep ==
    /\ d_pc = "idle" /\ d_today' = d_today /\ ledger' = ledger
    /\ d_outcome' \in {"run_started", "nothing_to_do"}
LoopPassStep == d_pc = "loop" /\ d_today' = d_today /\ ledger' = ledger

\* the collection changes only by the insert of the aggregate of the day in
\* hand, and only when no document holds that day's key
WrittenOnlyWhenAbsent ==
    dailyData' # dailyData =>
       /\ LoopPassStep
       /\ ~HasKey(dailyData, strftime(d_current))
       /\ LET ts == day_timestamps_utc(d_current)
          IN  dailyData' = Append(dailyData,
                 [key |-> strftime(d_current),
                  value |-> aggregate_for_day(ledger, ts[1], ts[2])])

\* a stored day keeps its entry
StoredDayKept ==
    dailyData' # dailyData =>
       \A i \in 1..Len(dailyData) :
          i <= Len(dailyData') /\ dailyData'[i] = dailyData[i]

\* a run starts at the day after the greatest stored date and is to go up
\* to yesterday
StartsAfterGreatest ==
    (RunStartStep /\ dailyData # <<>>) =>
       /\ d_current' = GreatestStored(dailyData) + 1
       /\ d_yesterday' = d_today - 1

\* a pass handles the day in hand, which is not after yesterday, and goes
\* on to the next day until yesterday is done
AscendingToYesterday ==
    LoopPassStep =>
       /\ d_current <= d_yesterday
       /\ d_yesterday' = d_yesterday
       /\ \/ d_outcome' = "crashed"
          \/ /\ d_current' = d_current + 1
             /\ (d_pc' = "loop") <=> (d_current' <= d_yesterday)

\* C21: the daily job writes the aggregate of a day only when no document
\* holds the day's key, a stored day's entry is never changed afterwards
\* (also when ledger records dated in that day arrive later), and each run
\* starts at the day after the greatest stored date and handles the days in
\* ascending order up to yesterday (UTC).
C21_DailyInsertOnly ==
    [][ /\ WrittenOnlyWhenAbsent
        /\ StoredDayKept
        /\ StartsAfterGreatest
        /\ AscendingToYesterday ]_vars

====
